---------------------------- MODULE Spec2Model ----------------------------
(***************************************************************************)
(* A model of foucluster/transform.py: the spectral pipeline of            *)
(* fourier_song (zero padding, |FFT|, limit_by_freq, group_by_freq,        *)
(* normalisation) and the batch driver all_songs / time_to_frequency /     *)
(* transform_wav running on a multiprocessing.Pool.                        *)
(*                                                                         *)
(* Floating-point values are modelled as exact rationals extended with NaN *)
(* and +Inf (the two non-finite values the pipeline can produce); rounding *)
(* is not modelled.                                                        *)
(***************************************************************************)
EXTENDS Integers, Sequences, FiniteSets, TLC

VARIABLES
    \* fourier_song, one call followed step by step
    npc,              \* the line fourier_song has reached
    aud_data,         \* the mono samples read from the wav file
    rate,             \* the sample rate read from the wav file
    rate_limit,       \* the rate_limit argument
    channel_1,        \* the zero-padded buffer
    fourier,          \* |FFT| of channel_1
    w,                \* the frequency axis
    fourier_to_plot,  \* the amplitudes, limited, then binned, then scaled
    binned,           \* history: the amplitudes group_by_freq returned
    rebin             \* group_by_freq applied twice to the limited spectrum

VARIABLES
    \* the machine and the folders
    cpu_count,        \* mp.cpu_count()
    tools,            \* which of mpg123 and ffmpeg can be launched
    folder,           \* os.listdir(source_folder), in the order it returns
    dirs,             \* which of the temp, output and image folders exist
    wav,              \* temp_folder: file name -> decoded waveform
    json,             \* output_folder: file name -> record
    images,           \* image_folder: the plots written
    \* one call of all_songs
    main,             \* "idle", "running", "done" or "raised"
    runs,             \* calls of all_songs so far
    overwrite,        \* the overwrite argument of the call
    plot,             \* the plot argument of every call
    processes,        \* the pool size asked for
    queue,            \* the chunks of starmap not yet taken by a worker
    failed,           \* some chunk of this call raised
    workers,          \* per pool worker: its chunk and its place in
                      \* time_to_frequency
    \* history
    log,              \* what this call invoked, per song
    json0             \* the output folder as it was when this call began

batchVars == <<cpu_count, tools, folder, dirs, wav, json, images, main, runs,
               overwrite, plot, processes, queue, failed, workers, log, json0>>

vars == <<npc, aud_data, rate, rate_limit, channel_1, fourier, w,
          fourier_to_plot, binned, rebin, cpu_count, tools, folder, dirs, wav,
          json, images, main, runs, overwrite, plot, processes, queue, failed,
          workers, log, json0>>

numVars == <<npc, aud_data, rate, rate_limit, channel_1, fourier, w,
             fourier_to_plot, binned, rebin>>

\* ------------------------------------------------------------------------
\* Bounds of the model
\* ------------------------------------------------------------------------
MaxLen == 5
MaxSample == 1

\* ------------------------------------------------------------------------
\* Floats: [k |-> "num", n, d] is the rational n/d (d > 0, lowest terms),
\* [k |-> "nan"] is NaN and [k |-> "inf"] is +Inf.
\* ------------------------------------------------------------------------
Abs(x) == IF x < 0 THEN -x ELSE x

RECURSIVE Gcd(_, _)
Gcd(a, b) == IF b = 0 THEN a ELSE Gcd(b, a % b)

NaN == [k |-> "nan", n |-> 0, d |-> 1]
Inf == [k |-> "inf", n |-> 1, d |-> 1]

F(n, d) ==
    LET g == Gcd(Abs(n), d)
    IN  IF g = 0 THEN [k |-> "num", n |-> 0, d |-> 1]
        ELSE [k |-> "num", n |-> n \div g, d |-> d \div g]

FInt(i) == F(i, 1)
IsNaN(x) == x.k = "nan"
IsInf(x) == x.k = "inf"
IsNum(x) == x.k = "num"

\* x <= y and x < y as IEEE comparisons: false as soon as one side is NaN.
FLe(x, y) ==
    CASE IsNaN(x) \/ IsNaN(y) -> FALSE
      [] IsInf(y) -> TRUE
      [] IsInf(x) -> FALSE
      [] OTHER -> x.n * y.d <= y.n * x.d

FLt(x, y) ==
    CASE IsNaN(x) \/ IsNaN(y) -> FALSE
      [] IsInf(x) -> FALSE
      [] IsInf(y) -> TRUE
      [] OTHER -> x.n * y.d < y.n * x.d

FAdd(x, y) ==
    CASE IsNaN(x) \/ IsNaN(y) -> NaN
      [] IsInf(x) \/ IsInf(y) -> Inf
      [] OTHER -> F(x.n * y.d + y.n * x.d, x.d * y.d)

\* x / y for x >= 0 or NaN and y >= 0 or NaN, as numpy divides: 0/0 is NaN,
\* x/0 is Inf for x > 0, and no exception is raised (a RuntimeWarning only).
FDiv(x, y) ==
    CASE IsNaN(x) \/ IsNaN(y) -> NaN
      [] IsInf(x) /\ IsInf(y) -> NaN
      [] IsInf(x) -> Inf
      [] IsInf(y) -> FInt(0)
      [] y.n = 0 -> IF x.n = 0 THEN NaN ELSE Inf
      [] OTHER -> F(x.n * y.d, x.d * y.n)

RECURSIVE FSum(_)
FSum(s) == IF s = <<>> THEN FInt(0) ELSE FAdd(Head(s), FSum(Tail(s)))

\* np.mean: NaN for an empty selection (0/0), NaN as soon as one entry is.
Mean(s) == FDiv(FSum(s), FInt(Len(s)))

\* np.max of a non-empty array: NaN as soon as one entry is NaN.
RECURSIVE NpMax(_)
NpMax(s) ==
    IF Len(s) = 1 THEN s[1]
    ELSE LET m == NpMax(Tail(s))
         IN  CASE IsNaN(s[1]) -> NaN
               [] IsNaN(m) -> NaN
               [] FLt(s[1], m) -> m
               [] OTHER -> s[1]

\* np.argmax of a non-empty array (1-based here): the first NaN when there
\* is one, else the first position holding the maximum.
ArgMax(s) ==
    IF \E i \in 1..Len(s) : IsNaN(s[i])
    THEN CHOOSE i \in 1..Len(s) :
             IsNaN(s[i]) /\ \A j \in 1..(i - 1) : ~IsNaN(s[j])
    ELSE CHOOSE i \in 1..Len(s) :
             /\ \A j \in 1..Len(s) : FLe(s[j], s[i])
             /\ \A j \in 1..(i - 1) : FLt(s[j], s[i])

\* The subsequence of s at the positions where mask holds (arr[mask]).
RECURSIVE Masked(_, _)
Masked(s, mask) ==
    IF s = <<>> THEN <<>>
    ELSE (IF Head(mask) THEN <<Head(s)>> ELSE <<>>)
             \o Masked(Tail(s), Tail(mask))


\* ------------------------------------------------------------------------
\* fourier_song, step by step (pure functions)
\* ------------------------------------------------------------------------
Pow2(e) == 2 ^ e

\* floor(log2(n)) for n >= 1.
RECURSIVE FloorLog2(_)
FloorLog2(n) == IF n <= 1 THEN 0 ELSE 1 + FloorLog2(n \div 2)

\* int(np.ceil(np.log2(n))) for n >= 1: log2 is exact on powers of two and
\* strictly between two integers everywhere else.
CeilLog2(n) ==
    IF Pow2(FloorLog2(n)) = n THEN FloorLog2(n) ELSE FloorLog2(n) + 1

\* PaddedLength with the exponent rounded down instead of up (a faulty
\* variant, used to test C5).
PaddedLengthFloor(n) == Pow2(FloorLog2(n))

\* len(channel_1) = 2 ** int(np.ceil(np.log2(len_data))), len_data >= 1.
PaddedLength(n) == Pow2(CeilLog2(n))

\* channel_1 = np.zeros(...); channel_1[0:len_data] = aud_data
ZeroPad(aud) ==
    [i \in 1..PaddedLength(Len(aud)) |->
        IF i <= Len(aud) THEN aud[i] ELSE 0]

IsSquare(q) == \E r \in 0..q : r * r = q
Isqrt(q) == CHOOSE r \in 0..q : r * r = q

\* |X_1|^2 = |X_3|^2 of a 4-point DFT of a real signal.
Quad4(x) == (x[1] - x[3]) * (x[1] - x[3]) + (x[2] - x[4]) * (x[2] - x[4])

\* The padded signals whose DFT magnitudes are all integers, and of a length
\* the exact DFT below covers.
ExactSpectrum(x) ==
    /\ Len(x) \in {1, 2, 4}
    /\ Len(x) = 4 => IsSquare(Quad4(x))

\* np.abs(np.fft.fft(channel_1)) for the lengths 1, 2 and 4, exactly.
FftAbs(x) ==
    CASE Len(x) = 1 -> <<FInt(Abs(x[1]))>>
      [] Len(x) = 2 -> <<FInt(Abs(x[1] + x[2])), FInt(Abs(x[1] - x[2]))>>
      [] Len(x) = 4 ->
            <<FInt(Abs(x[1] + x[2] + x[3] + x[4])),
              FInt(Isqrt(Quad4(x))),
              FInt(Abs(x[1] - x[2] + x[3] - x[4])),
              FInt(Isqrt(Quad4(x)))>>

\* np.linspace(0, rate, num): both end points included; [0.] when num = 1.
Linspace(stop, num) ==
    [i \in 1..num |-> IF num = 1 THEN FInt(0) ELSE F((i - 1) * stop, num - 1)]

\* limit_by_freq with bottom_limit=None: the points with freq <= upper_limit
\* (np.float is the builtin float, as in NumPy before 1.24).
limit_by_freq(freq, features, upper_limit) ==
    LET upper_mask == [i \in 1..Len(freq) |-> FLe(freq[i], FInt(upper_limit))]
    IN  [freq |-> Masked(freq, upper_mask),
         features |-> Masked(features, upper_mask)]

\* int(x) of a float: truncation; ValueError on NaN, OverflowError on Inf.
IntOk(x) == IsNum(x)
IntOf(x) == IF x.n >= 0 THEN x.n \div x.d ELSE -((-x.n) \div x.d)

\* mask = (freq >= i) * (freq < i + min_freq)
BinMask(freq, i, min_freq) ==
    [j \in 1..Len(freq) |->
        FLe(FInt(i), freq[j]) /\ FLt(freq[j], FInt(i + min_freq))]

\* group_by_freq with max_rate=None.  err is TRUE when the call raises:
\* np.max of an empty array, or int() of a NaN or Inf quotient.
group_by_freq(freq, features, min_freq) ==
    IF Len(freq) = 0 \/ ~IntOk(FDiv(NpMax(freq), FInt(min_freq)))
    THEN [err |-> TRUE, freq |-> <<>>, features |-> <<>>]
    ELSE LET max_rate == NpMax(freq)
             q == IntOf(FDiv(max_rate, FInt(min_freq)))
             final_length == IF q < 0 THEN 0 ELSE q
         IN  [err |-> FALSE,
              freq |-> [b \in 1..final_length |->
                           Mean(Masked(freq, BinMask(freq, b - 1, min_freq)))],
              features |-> [b \in 1..final_length |->
                           Mean(Masked(features, BinMask(freq, b - 1, min_freq)))]]

\* Lines 63-65: zero the arg-max bin, scale by max / 100.  err is TRUE when
\* np.argmax raises on an empty array.
Normalise(ftp) ==
    IF Len(ftp) = 0 THEN [err |-> TRUE, features |-> <<>>]
    ELSE LET zeroed == [ftp EXCEPT ![ArgMax(ftp)] = FInt(0)]
             a == FDiv(NpMax(zeroed), FInt(100))
         IN  [err |-> FALSE,
              features |-> [i \in 1..Len(zeroed) |-> FDiv(zeroed[i], a)]]

\* fourier_song on a mono waveform already read from the wav file.  FDiv is
\* never handed a negative value: magnitudes and their means are >= 0.
fourier_song(sample_rate, samples, upper_limit) ==
    IF Len(samples) = 0 THEN [err |-> TRUE, w |-> <<>>, features |-> <<>>]
    ELSE LET padded == ZeroPad(samples)
             magnitudes == FftAbs(padded)
             lim == limit_by_freq(Linspace(sample_rate, Len(magnitudes)),
                                  magnitudes, upper_limit)
             grp == group_by_freq(lim.freq, lim.features, 1)
             nrm == Normalise(grp.features)
         IN  IF grp.err \/ nrm.err
             THEN [err |-> TRUE, w |-> <<>>, features |-> <<>>]
             ELSE [err |-> FALSE, w |-> grp.freq, features |-> nrm.features]

\* ------------------------------------------------------------------------
\* The source folder, the decoders and the files
\* ------------------------------------------------------------------------
MaxRuns == 2
DefaultRateLimit == 6000

\* File names are tuples of characters.
SongA == <<"a", ".", "m">>
SongA2 == <<"a", ".", "w">>
SongB == <<"b", ".", "m">>
SongC == <<"c", ".", "m">>
SongD == <<"d", ".", "m">>
Library == <<SongA, SongA2, SongB, SongC, SongD>>
LibrarySet == {Library[i] : i \in 1..Len(Library)}

\* What a decoder writes for each song: two tracks with a spectrum, a
\* silent track, and a file that decodes to no sample at all.
Audio(song) ==
    CASE song = SongA -> [rate |-> 3, data |-> <<2, 1, 0, 1>>]
      [] song = SongA2 -> [rate |-> 3, data |-> <<3, 1, 0, 1>>]
      [] song = SongB -> [rate |-> 3, data |-> <<0, 0, 0, 0>>]
      [] song = SongC -> [rate |-> 3, data |-> <<2, 1, 0, 1>>]
      [] song = SongD -> [rate |-> 3, data |-> <<>>]

\* mpg123's exit status when it can be launched: it rejects SongC.
Mpg123Decodes(song) == song # SongC
\* ffmpeg decodes every song of the library.
FfmpegDecodes(song) == song \in LibrarySet

Cpus == {1, 2, 4}
ToolSets == {"both", "ffmpeg", "none"}

\* os.listdir: the entries of a folder, in the library's order or reversed.
RECURSIVE Listing(_, _)
Listing(S, i) ==
    IF i > Len(Library) THEN <<>>
    ELSE (IF Library[i] \in S THEN <<Library[i]>> ELSE <<>>)
             \o Listing(S, i + 1)

Reverse(q) == [i \in 1..Len(q) |-> q[Len(q) + 1 - i]]

Listings ==
    {Listing(S, 1) : S \in SUBSET LibrarySet}
        \cup {Reverse(Listing(S, 1)) : S \in SUBSET LibrarySet}

\* os.path.splitext(p)[0] for a name without directory separators: cut at
\* the last dot, unless only dots come before it.
LastDot(p) ==
    IF \E i \in 1..Len(p) : p[i] = "."
    THEN CHOOSE i \in 1..Len(p) :
             p[i] = "." /\ \A j \in (i + 1)..Len(p) : p[j] # "."
    ELSE 0

splitext_root(p) ==
    LET dotIndex == LastDot(p)
    IN  IF dotIndex > 0 /\ \E i \in 1..(dotIndex - 1) : p[i] # "."
        THEN SubSeq(p, 1, dotIndex - 1)
        ELSE p

\* Lines 159-170: the names time_to_frequency derives from the entry.
song_name(song) == splitext_root(song)
wav_file(song) == song_name(song) \o <<".", "w", "a", "v">>
full_json_name(song) == song_name(song) \o <<".", "j", "s", "o", "n">>

WavNames == {wav_file(sg) : sg \in LibrarySet}
JsonNames == {full_json_name(sg) : sg \in LibrarySet}

NoWav == [exists |-> FALSE, rate |-> 0, data |-> <<>>]
NoJson == [state |-> "absent", song |-> <<>>, data |-> <<>>]
\* The file right after open(full_json_name, 'w'): truncated to nothing.
EmptyJson == [state |-> "empty", song |-> <<>>, data |-> <<>>]

\* Lines 177-179: freq_dict.update({str(x): y}) for each pair in turn, a
\* later pair replacing an earlier one with the same key.  str() is
\* one-to-one on finite floats and 'nan' for every NaN, so keys are the
\* values.
FreqDict(freqs, amps) ==
    [key \in {freqs[i] : i \in 1..Len(freqs)} |->
        amps[CHOOSE i \in 1..Len(freqs) :
                 freqs[i] = key /\ \A j \in (i + 1)..Len(freqs) : freqs[j] # key]]

\* Lines 182-184: json.dump({song: freq_dict}); NaN and Infinity are
\* written as they are (allow_nan is left at its default).
Record(song, freqs, amps) ==
    [state |-> "complete", song |-> song, data |-> FreqDict(freqs, amps)]

\* ShouldTransform with the overwrite test dropped (a faulty variant, used
\* to test C1).
ShouldTransformAlways(exists, ow) == TRUE

\* Line 171: not os.path.isfile(full_json_name) or overwrite is True
ShouldTransform(exists, ow) == ~exists \/ ow

\* ------------------------------------------------------------------------
\* multiprocessing.Pool as all_songs uses it
\* ------------------------------------------------------------------------
\* Pool.starmap's default chunksize: ceil(len / (4 * processes)).
ChunkSize(len, procs) ==
    IF len % (procs * 4) = 0 THEN len \div (procs * 4)
    ELSE len \div (procs * 4) + 1

RECURSIVE Chunks(_, _)
Chunks(q, size) ==
    IF q = <<>> THEN <<>>
    ELSE IF Len(q) <= size THEN <<q>>
    ELSE <<SubSeq(q, 1, size)>> \o Chunks(SubSeq(q, size + 1, Len(q)), size)

\* Line 230: processes=int(mp.cpu_count() / 2)
PoolSize(cpus) == cpus \div 2

\* fourier_song with the default rate_limit on each waveform a decoder can
\* write, computed once.
Spectra ==
    [a \in {Audio(sg) : sg \in LibrarySet} |->
        fourier_song(a.rate, a.data, DefaultRateLimit)]

NoRes == [w |-> <<>>, features |-> <<>>]
IdleWorker == [pc |-> "idle", chunk |-> <<>>, res |-> NoRes]
\* Worker identities: as many as the largest pool of Cpus needs.
Workers == {1, 2}

Event(ev, song, res) == [ev |-> ev, song |-> song, res |-> res]

NumUnused ==
    /\ npc = "unused"
    /\ aud_data = <<>>
    /\ rate = 0
    /\ rate_limit = DefaultRateLimit
    /\ channel_1 = <<>>
    /\ fourier = <<>>
    /\ w = <<>>
    /\ fourier_to_plot = <<>>
    /\ binned = <<>>
    /\ rebin = [min_freq |-> 0, first |-> <<>>, second |-> <<>>]

\* Before the first call: empty temp, output and image folders.
BatchStart ==
    /\ dirs = {}
    /\ wav = [f \in WavNames |-> NoWav]
    /\ json = [f \in JsonNames |-> NoJson]
    /\ images = {}
    /\ main = "idle"
    /\ runs = 0
    /\ overwrite = TRUE
    /\ processes = 0
    /\ queue = <<>>
    /\ failed = FALSE
    /\ workers = [k \in Workers |-> IdleWorker]
    /\ log = {}
    /\ json0 = [f \in JsonNames |-> NoJson]

\* The batch part of the state where only fourier_song is followed.
BatchUnused ==
    /\ cpu_count = 2
    /\ tools = "both"
    /\ folder = <<>>
    /\ plot = FALSE
    /\ BatchStart

Init ==
    /\ cpu_count \in Cpus
    /\ tools \in ToolSets
    /\ folder \in Listings
    /\ plot \in BOOLEAN
    /\ BatchStart
    /\ NumUnused

\* ------------------------------------------------------------------------
\* all_songs and, on the pool's workers, time_to_frequency
\* ------------------------------------------------------------------------
\* all_songs up to the starmap call (lines 217-231): the folders are made,
\* the entries listed and the pool created.  Pool(processes=0) raises
\* ValueError before any entry is handed out.
AllSongs ==
    /\ main # "running"
    /\ runs < MaxRuns
    /\ runs' = runs + 1
    /\ \E ow \in BOOLEAN : overwrite' = ow
    /\ dirs' = dirs \cup {"temp", "output"}
                    \cup (IF plot THEN {"image"} ELSE {})
    /\ processes' = PoolSize(cpu_count)
    /\ IF processes' < 1
       THEN /\ main' = "raised"
            /\ queue' = <<>>
       ELSE /\ main' = "running"
            /\ queue' = Chunks(folder, ChunkSize(Len(folder), processes'))
    /\ failed' = FALSE
    /\ workers' = [k \in Workers |-> IdleWorker]
    /\ log' = {}
    /\ json0' = json
    /\ UNCHANGED <<cpu_count, tools, folder, plot, wav, json, images>>
    /\ UNCHANGED numVars

\* An idle worker of the pool takes the next chunk of entries.
TakeChunk(k) ==
    /\ main = "running"
    /\ k <= processes
    /\ workers[k].pc = "idle"
    /\ queue # <<>>
    /\ workers' = [workers EXCEPT ![k] =
                      [pc |-> "decode", chunk |-> Head(queue), res |-> NoRes]]
    /\ queue' = Tail(queue)
    /\ UNCHANGED <<cpu_count, tools, folder, dirs, wav, json, images, main,
                   runs, overwrite, plot, processes, failed, log, json0>>
    /\ UNCHANGED numVars

\* The worker after one entry of its chunk: the next entry, or idle.
Advance(wk) ==
    IF Len(wk.chunk) > 1
    THEN [pc |-> "decode", chunk |-> Tail(wk.chunk), res |-> NoRes]
    ELSE IdleWorker

\* transform_wav (lines 32-40), called at line 167.  subprocess.run does
\* not raise on a non-zero exit status; it raises when the program cannot
\* be launched.  A launch failure of ffmpeg inside the handler leaves
\* transform_wav, time_to_frequency and the chunk.
TransformWav(k) ==
    /\ main = "running"
    /\ workers[k].pc = "decode"
    /\ LET song == Head(workers[k].chunk)
           f == wav_file(song)
           decoded == [exists |-> TRUE, rate |-> Audio(song).rate,
                       data |-> Audio(song).data]
       IN  CASE wav[f].exists ->
                  /\ log' = log \cup {Event("transform_wav", song, "present")}
                  /\ workers' = [workers EXCEPT ![k].pc = "transform"]
                  /\ UNCHANGED <<wav, failed>>
             [] ~wav[f].exists /\ tools = "both" ->
                  /\ log' = log \cup
                        {Event("transform_wav", song, "missing"),
                         Event("mpg123", song,
                               IF Mpg123Decodes(song) THEN "ok" ELSE "nonzero")}
                  /\ wav' = IF Mpg123Decodes(song)
                            THEN [wav EXCEPT ![f] = decoded] ELSE wav
                  /\ workers' = [workers EXCEPT ![k].pc = "transform"]
                  /\ UNCHANGED failed
             [] ~wav[f].exists /\ tools = "ffmpeg" ->
                  /\ log' = log \cup
                        {Event("transform_wav", song, "missing"),
                         Event("mpg123", song, "launch failed"),
                         Event("ffmpeg", song,
                               IF FfmpegDecodes(song) THEN "ok" ELSE "nonzero")}
                  /\ wav' = IF FfmpegDecodes(song)
                            THEN [wav EXCEPT ![f] = decoded] ELSE wav
                  /\ workers' = [workers EXCEPT ![k].pc = "transform"]
                  /\ UNCHANGED failed
             [] ~wav[f].exists /\ tools = "none" ->
                  /\ log' = log \cup
                        {Event("transform_wav", song, "missing"),
                         Event("mpg123", song, "launch failed"),
                         Event("ffmpeg", song, "launch failed")}
                  /\ workers' = [workers EXCEPT ![k] = IdleWorker]
                  /\ failed' = TRUE
                  /\ UNCHANGED wav
    /\ UNCHANGED <<cpu_count, tools, folder, dirs, json, images, main, runs,
                   overwrite, plot, processes, queue, json0>>
    /\ UNCHANGED numVars

\* Lines 170-174: the overwrite test and fourier_song.  read() raises on a
\* missing wav file and fourier_song on an empty waveform; an exception
\* ends the worker's whole chunk (the pool maps a chunk in one call).
Transform(k) ==
    /\ main = "running"
    /\ workers[k].pc = "transform"
    /\ LET song == Head(workers[k].chunk)
           exists == json[full_json_name(song)].state # "absent"
           file == wav[wav_file(song)]
           r == Spectra[[rate |-> file.rate, data |-> file.data]]
       IN  IF ~ShouldTransform(exists, overwrite)
           THEN /\ log' = log \cup {Event("skip", song, "")}
                /\ workers' = [workers EXCEPT ![k] = Advance(workers[k])]
                /\ UNCHANGED failed
           ELSE /\ log' = log \cup {Event("fourier_song", song, "")}
                /\ IF ~file.exists \/ r.err
                   THEN /\ workers' = [workers EXCEPT ![k] = IdleWorker]
                        /\ failed' = TRUE
                   ELSE /\ workers' = [workers EXCEPT
                              ![k].pc = "open",
                              ![k].res = [w |-> r.w, features |-> r.features]]
                        /\ UNCHANGED failed
    /\ UNCHANGED <<cpu_count, tools, folder, dirs, wav, json, images, main,
                   runs, overwrite, plot, processes, queue, json0>>
    /\ UNCHANGED numVars

\* Line 183: open(full_json_name, 'w') truncates the file where it is.
OpenRecord(k) ==
    /\ main = "running"
    /\ workers[k].pc = "open"
    /\ LET song == Head(workers[k].chunk)
       IN  /\ json' = [json EXCEPT ![full_json_name(song)] = EmptyJson]
           /\ log' = log \cup {Event("open", song, "")}
    /\ workers' = [workers EXCEPT ![k].pc = "dump"]
    /\ UNCHANGED <<cpu_count, tools, folder, dirs, wav, images, main, runs,
                   overwrite, plot, processes, queue, failed, json0>>
    /\ UNCHANGED numVars

\* Lines 184-191: json.dump, the file closed, and the plot when asked for.
DumpRecord(k) ==
    /\ main = "running"
    /\ workers[k].pc = "dump"
    /\ LET song == Head(workers[k].chunk)
           res == workers[k].res
       IN  /\ json' = [json EXCEPT ![full_json_name(song)] =
                          Record(song, res.w, res.features)]
           /\ log' = log \cup {Event("dump", song, "")}
           /\ images' = IF plot THEN images \cup {song_name(song)} ELSE images
    /\ workers' = [workers EXCEPT ![k] = Advance(workers[k])]
    /\ UNCHANGED <<cpu_count, tools, folder, dirs, wav, main, runs,
                   overwrite, plot, processes, queue, failed, json0>>
    /\ UNCHANGED numVars

\* starmap returns once every chunk is done, and raises if one of them
\* raised; the exception leaves all_songs.
StarmapReturns ==
    /\ main = "running"
    /\ queue = <<>>
    /\ \A k \in Workers : workers[k].pc = "idle"
    /\ main' = IF failed THEN "raised" ELSE "done"
    /\ UNCHANGED <<cpu_count, tools, folder, dirs, wav, json, images, runs,
                   overwrite, plot, processes, queue, failed, workers, log,
                   json0>>
    /\ UNCHANGED numVars

\* Between two calls the temp folder may be emptied: its wav files are
\* intermediate products, which transform_wav writes again when missing.
CleanTemp ==
    /\ main \in {"done", "raised"}
    /\ \E f \in WavNames : wav[f].exists
    /\ wav' = [f \in WavNames |-> NoWav]
    /\ UNCHANGED <<cpu_count, tools, folder, dirs, json, images, main, runs,
                   overwrite, plot, processes, queue, failed, workers, log,
                   json0>>
    /\ UNCHANGED numVars

Next ==
    \/ AllSongs
    \/ CleanTemp
    \/ \E k \in Workers : TakeChunk(k)
    \/ \E k \in Workers : TransformWav(k)
    \/ \E k \in Workers : Transform(k)
    \/ \E k \in Workers : OpenRecord(k)
    \/ \E k \in Workers : DumpRecord(k)
    \/ StarmapReturns

\* ------------------------------------------------------------------------
\* fourier_song as a state machine: one action per stage
\* ------------------------------------------------------------------------
Samples == (-MaxSample)..MaxSample

\* All sequences over S of length at most n.
RECURSIVE SeqsUpTo(_, _)
SeqsUpTo(S, n) ==
    IF n = 0 THEN {<<>>}
    ELSE LET shorter == SeqsUpTo(S, n - 1)
         IN  shorter \cup {Append(t, x) : t \in {u \in shorter : Len(u) = n - 1},
                                          x \in S}

Rates == {1, 2, 3, 8}
RateLimits == {2, DefaultRateLimit}
MinFreqs == {1, 2}
NoRebin == [min_freq |-> 0, first |-> <<>>, second |-> <<>>]

NumIdle ==
    /\ channel_1 = <<>>
    /\ fourier = <<>>
    /\ w = <<>>
    /\ fourier_to_plot = <<>>
    /\ binned = <<>>
    /\ rebin = NoRebin

\* rate, aud_data = read(wav_file), for every short mono waveform.
InitPad ==
    /\ npc = "read"
    /\ aud_data \in SeqsUpTo(Samples, MaxLen)
    /\ rate = 3
    /\ rate_limit = DefaultRateLimit
    /\ NumIdle
    /\ BatchUnused

\* The waveforms whose padded buffer has an exactly representable spectrum.
InitFourier ==
    /\ npc = "read"
    /\ aud_data \in {a \in SeqsUpTo(Samples, 4) :
                        Len(a) >= 1 /\ ExactSpectrum(ZeroPad(a))}
    /\ rate \in Rates
    /\ rate_limit \in RateLimits
    /\ NumIdle
    /\ BatchUnused

\* Lines 51-53.  np.log2(0) is -inf and int(-inf) raises OverflowError.
ZeroPadding ==
    /\ npc = "read"
    /\ IF Len(aud_data) = 0
       THEN /\ npc' = "error"
            /\ UNCHANGED channel_1
       ELSE /\ npc' = "padded"
            /\ channel_1' = ZeroPad(aud_data)
    /\ UNCHANGED <<aud_data, rate, rate_limit, fourier, w, fourier_to_plot,
                   binned, rebin>>
    /\ UNCHANGED batchVars

\* Lines 56-57.
FourierAnalysis ==
    /\ npc = "padded"
    /\ npc' = "fft"
    /\ fourier' = FftAbs(channel_1)
    /\ w' = Linspace(rate, Len(channel_1))
    /\ UNCHANGED <<aud_data, rate, rate_limit, channel_1, fourier_to_plot,
                   binned, rebin>>
    /\ UNCHANGED batchVars

\* Line 59.
LimitByFreq ==
    /\ npc = "fft"
    /\ npc' = "limited"
    /\ LET lim == limit_by_freq(w, fourier, rate_limit)
       IN  /\ w' = lim.freq
           /\ fourier_to_plot' = lim.features
    /\ UNCHANGED <<aud_data, rate, rate_limit, channel_1, fourier, binned,
                   rebin>>
    /\ UNCHANGED batchVars

\* Line 60.
GroupByFreq ==
    /\ npc = "limited"
    /\ LET grp == group_by_freq(w, fourier_to_plot, 1)
       IN  IF grp.err
           THEN /\ npc' = "error"
                /\ UNCHANGED <<w, fourier_to_plot, binned>>
           ELSE /\ npc' = "grouped"
                /\ w' = grp.freq
                /\ fourier_to_plot' = grp.features
                /\ binned' = grp.features
    /\ UNCHANGED <<aud_data, rate, rate_limit, channel_1, fourier, rebin>>
    /\ UNCHANGED batchVars

\* Lines 63-67.
Normalisation ==
    /\ npc = "grouped"
    /\ LET nrm == Normalise(fourier_to_plot)
       IN  IF nrm.err
           THEN /\ npc' = "error"
                /\ UNCHANGED fourier_to_plot
           ELSE /\ npc' = "done"
                /\ fourier_to_plot' = nrm.features
    /\ UNCHANGED <<aud_data, rate, rate_limit, channel_1, fourier, w, binned,
                   rebin>>
    /\ UNCHANGED batchVars

\* group_by_freq applied to the limited (evenly spaced) spectrum, and then
\* to its own output with the same min_freq.
Rebin ==
    /\ npc = "limited"
    /\ \E mf \in MinFreqs :
          LET first == group_by_freq(w, fourier_to_plot, mf)
              second == IF first.err THEN first
                        ELSE group_by_freq(first.freq, first.features, mf)
          IN  rebin' = [min_freq |-> mf, first |-> first, second |-> second]
    /\ npc' = "rebinned"
    /\ UNCHANGED <<aud_data, rate, rate_limit, channel_1, fourier, w,
                   fourier_to_plot, binned>>
    /\ UNCHANGED batchVars

NextPad == ZeroPadding

NextFourier ==
    \/ ZeroPadding
    \/ FourierAnalysis
    \/ LimitByFreq
    \/ GroupByFreq
    \/ Normalisation
    \/ Rebin

Spec == Init /\ [][Next]_vars
SpecPad == InitPad /\ [][NextPad]_vars
SpecFourier == InitFourier /\ [][NextFourier]_vars


\* ------------------------------------------------------------------------
\* Properties of fourier_song
\* ------------------------------------------------------------------------
IsPow2(m) == \E e \in 0..m : Pow2(e) = m

\* C5: the zero-padded buffer has the length of the smallest power of two
\* that is >= n (n itself when n is a power of two), starts with the n
\* samples and is zero from there on.
C5_ZeroPadded ==
    npc = "padded" =>
        LET n == Len(aud_data)
            len == Len(channel_1)
        IN  /\ IsPow2(len)
            /\ len >= n
            /\ \A m \in n..len : IsPow2(m) => m = len
            /\ IsPow2(n) => len = n
            /\ \A i \in 1..len :
                  channel_1[i] = IF i <= n THEN aud_data[i] ELSE 0

\* A waveform of 5 samples, not a power of two, padded to 8 entries.
C5_Witness ==
    /\ npc = "padded"
    /\ Len(aud_data) = 5
    /\ Len(channel_1) = 8
    /\ aud_data[5] # 0

Silent(samples) == \A i \in 1..Len(samples) : samples[i] = 0

\* The divisor of line 65 for the binned amplitudes b.
Scale(b) == FDiv(NpMax([b EXCEPT ![ArgMax(b)] = FInt(0)]), FInt(100))

\* The positions of b holding its single global maximum, if it has one.
Dominant(b) ==
    {i \in 1..Len(b) :
        /\ IsNum(b[i])
        /\ \A j \in 1..Len(b) : (j # i /\ IsNum(b[j])) => FLt(b[j], b[i])}

\* C3: for a non-degenerate signal the returned spectrum has maximum
\* amplitude exactly 100 and the bin that held the single global maximum
\* before normalisation is exactly 0, empty bins or not.
C3_Normalised ==
    (npc = "done" /\ ~Silent(aud_data) /\ Scale(binned) # FInt(0)) =>
        /\ \E i \in 1..Len(fourier_to_plot) : fourier_to_plot[i] = FInt(100)
        /\ \A i \in 1..Len(fourier_to_plot) :
              FLe(fourier_to_plot[i], FInt(100))
        /\ \A i \in Dominant(binned) : fourier_to_plot[i] = FInt(0)

\* C7: group_by_freq applied with the same min_freq to its own output on an
\* evenly spaced spectrum returns arrays of the same length with the same
\* frequencies and amplitudes.
C7_Idempotent ==
    (/\ npc = "rebinned"
     /\ ~rebin.first.err
     /\ Len(rebin.first.freq) >= 1
     /\ \A i \in 1..Len(rebin.first.freq) : IsNum(rebin.first.freq[i])) =>
        /\ ~rebin.second.err
        /\ Len(rebin.second.freq) = Len(rebin.first.freq)
        /\ rebin.second.freq = rebin.first.freq
        /\ rebin.second.features = rebin.first.features


\* ------------------------------------------------------------------------
\* Properties of all_songs and time_to_frequency
\* ------------------------------------------------------------------------
Logged(ev, song) == \E e \in log : e.ev = ev /\ e.song = song
Entries == {folder[i] : i \in 1..Len(folder)}

\* C1 as stated: with overwrite false and T's record already there, the
\* record stays as it is and neither transform_wav nor fourier_song is
\* invoked for T.
C1_NothingInvoked ==
    \A sg \in Entries :
        (/\ ~overwrite
         /\ json0[full_json_name(sg)].state # "absent"
         /\ Logged("skip", sg)) =>
            /\ json[full_json_name(sg)] = json0[full_json_name(sg)]
            /\ ~Logged("fourier_song", sg)
            /\ ~Logged("transform_wav", sg)

\* C1 amended: with overwrite false and T's record there when the call
\* begins, the record stays byte for byte as it is, it is neither opened
\* nor written, and fourier_song is not invoked for T; transform_wav is
\* invoked for T all the same, and launches mpg123 when T's wav file is
\* missing.
C1_RecordKept ==
    \A sg \in Entries :
        (/\ runs >= 1
         /\ ~overwrite
         /\ json0[full_json_name(sg)].state # "absent") =>
            /\ json[full_json_name(sg)] = json0[full_json_name(sg)]
            /\ ~Logged("fourier_song", sg)
            /\ ~Logged("open", sg)
            /\ ~Logged("dump", sg)
            /\ Logged("skip", sg) => Logged("transform_wav", sg)
            /\ Event("transform_wav", sg, "missing") \in log
                  => Logged("mpg123", sg)

\* A later call with overwrite false has skipped a track whose record an
\* earlier call wrote, after transform_wav found its wav file missing and
\* launched mpg123.
C1_Witness ==
    \E sg \in Entries :
        /\ ~overwrite
        /\ json0[full_json_name(sg)].state = "complete"
        /\ Logged("skip", sg)
        /\ Event("transform_wav", sg, "missing") \in log
        /\ Logged("mpg123", sg)

\* The entry's own processing succeeds: a decoder writes its waveform and
\* fourier_song returns a spectrum for it.
Succeeds(sg) ==
    /\ \/ tools = "both" /\ Mpg123Decodes(sg)
       \/ tools = "ffmpeg" /\ FfmpegDecodes(sg)
    /\ ~Spectra[Audio(sg)].err

\* C2: a failing entry does not keep the other entries from being
\* attempted, and every entry whose own processing succeeds has its record
\* when the call is over.
C2_BestEffort ==
    (main \in {"done", "raised"} /\ processes >= 1 /\ tools # "none") =>
        \A sg \in Entries :
            /\ Logged("transform_wav", sg)
            /\ Succeeds(sg) => json[full_json_name(sg)].state = "complete"

\* C4: no record in the output folder holds a NaN or Inf amplitude.
C4_NoNaNStored ==
    \A f \in JsonNames :
        json[f].state = "complete" =>
            \A key \in DOMAIN json[f].data : IsNum(json[f].data[key])

\* C6: every failure of mpg123 (non-zero exit or launch failure) is
\* followed by an attempt of ffmpeg, and neither is launched when the wav
\* file is already there.
C6_Fallback ==
    \A e \in log :
        /\ (e.ev = "mpg123" /\ e.res # "ok") => Logged("ffmpeg", e.song)
        /\ (e.ev = "transform_wav" /\ e.res = "present") =>
              ~Logged("mpg123", e.song) /\ ~Logged("ffmpeg", e.song)

\* C8: the pool is created with max(1, floor(c / 2)) workers, at least one.
C8_PoolSize ==
    runs >= 1 =>
        /\ processes = (IF cpu_count \div 2 < 1 THEN 1 ELSE cpu_count \div 2)
        /\ processes >= 1

\* C9: two workers busy with distinct entries never share a temp wav path
\* or a record path.
C9_DisjointFiles ==
    \A k1, k2 \in Workers :
        (/\ k1 # k2
         /\ workers[k1].pc # "idle"
         /\ workers[k2].pc # "idle"
         /\ Head(workers[k1].chunk) # Head(workers[k2].chunk)) =>
            /\ wav_file(Head(workers[k1].chunk))
                  # wav_file(Head(workers[k2].chunk))
            /\ full_json_name(Head(workers[k1].chunk))
                  # full_json_name(Head(workers[k2].chunk))

\* C10: a record already on disk holds, at every point of a call, its
\* complete previous content or a complete new record.
C10_NeverPartial ==
    \A f \in JsonNames :
        json0[f].state = "complete" =>
            json[f] = json0[f] \/ json[f].state = "complete"

=============================================================================
